---- MODULE Spec2Model ----
(***************************************************************************)
(* A model of iphone_monitor.py: the polling loop                          *)
(* monitor_iphone_connection, the device query get_iphone_info, the        *)
(* formatter format_device_info and the notification show_popup.           *)
(*                                                                         *)
(* The collaborators (list_devices, create_using_usbmux, the lockdown      *)
(* attributes, DiagnosticsService, osascript) are nondeterministic: each   *)
(* call either succeeds with a value from a small set or raises an         *)
(* ordinary exception.  A KeyboardInterrupt can be delivered at any        *)
(* position of the loop.                                                   *)
(*                                                                         *)
(* Temperatures are integers: raw values as the diagnostics service gives  *)
(* them, Celsius and Fahrenheit in tenths of a degree.                     *)
(***************************************************************************)
EXTENDS Integers, Sequences, FiniteSets, TLC

\* Number of iterations of the `while True` loop that are explored.
MaxTicks == 4

\* time.sleep(1) before the query, time.sleep(2) after a tick, time.sleep(2)
\* in the `except Exception` handler.
SettleDelay == 1
TickInterval == 2
ErrorInterval == 2

\* A Temperature value that is not a number: `temp_raw / 100` raises TypeError.
NonNumeric == -1

---------------------------------------------------------------------------
\* Python dicts are functions whose domain is the set of keys present.

EmptyMap == << >>

Put(m, k, v) == [x \in (DOMAIN m) \cup {k} |-> IF x = k THEN v ELSE m[x]]

Has(m, k) == k \in DOMAIN m

\* Optional[dict]: None, or a dict.
NoneVal == [isNone |-> TRUE, d |-> EmptyMap]

Dict(m) == [isNone |-> FALSE, d |-> m]

\* `if info:` is false for None and for an empty dict.
Truthy(v) == ~v.isNone /\ DOMAIN v.d # {}

---------------------------------------------------------------------------
\* What the collaborators can answer.

\* A lockdown session, with the three attributes the query reads.
NoSession == [display_name |-> "", product_type |-> "", product_version |-> ""]

Sessions ==
    { [display_name |-> "iPhone 15", product_type |-> "iPhone15,4", product_version |-> "17.4"],
      [display_name |-> "iPhone SE", product_type |-> "iPhone14,6", product_version |-> "16.7"] }

\* Raw temperatures: freezing point and its neighbours, the claim's 27415,
\* a value whose float subtraction falls just below a tie (27340), and the
\* hot threshold and its neighbour.
TempRaws == {27305, 27314, 27315, 27340, 27415, 30815, 30825}

\* What diag.get_battery() can return: dicts with any of the two capacity
\* keys, a temperature and a charging flag; a dict whose Temperature is not
\* a number; None; a list.
NoBattery == [kind |-> "unset", d |-> EmptyMap]

BatteryDicts ==
    { [CurrentCapacity |-> 80, IsCharging |-> TRUE],
      [BatteryCurrentCapacity |-> 42],
      [CurrentCapacity |-> 80, BatteryCurrentCapacity |-> 42, IsCharging |-> FALSE],
      [IsCharging |-> TRUE],
      [CurrentCapacity |-> 80, Temperature |-> NonNumeric],
      EmptyMap }
    \cup { [CurrentCapacity |-> 80, Temperature |-> r, IsCharging |-> TRUE] : r \in TempRaws }
    \cup { [Temperature |-> r] : r \in {27315, 27415} }

BatteryInfos ==
    { [kind |-> "dict", d |-> m] : m \in BatteryDicts }
    \cup { [kind |-> "none", d |-> EmptyMap], [kind |-> "list", d |-> EmptyMap] }

---------------------------------------------------------------------------
\* Pure functions of the source.

\* round((temp_raw / 100) - 273.15, 1), in tenths of a degree.  The float
\* difference is within 1e-11 of (raw - 27315)/100, so the result is the
\* nearest tenth; on an exact tie the float error decides.  For raw in
\* 25541..51229 the difference of a tie lies above it (rounds up) except
\* when raw % 100 = 40, where it lies below (rounds down).
TenthsOf(raw) ==
    IF raw % 100 = 40 THEN (raw - 27315 - 5) \div 10
                      ELSE (raw - 27315 + 5) \div 10

\* round((temp_c * 9/5) + 32, 1), in tenths: 18*c/10 is never a tie.
FahrenheitTenths(c) == ((c * 18 + 5) \div 10) + 320

\* The classification of format_device_info; 350 is 35 degrees in tenths.
HotThreshold == 350

TempStatus_Inclusive(c) ==
    IF c <= 0 THEN "Too Cold!" ELSE IF c >= HotThreshold THEN "Too Hot!" ELSE "Normal"

TempStatus(c) ==
    IF c < 0 THEN "Too Cold!" ELSE IF c > HotThreshold THEN "Too Hot!" ELSE "Normal"

\* info.get(key, default)
GetOr(m, k, default) == IF Has(m, k) THEN m[k] ELSE default

\* format_device_info: the lines of the message, in order.
format_device_info(i) ==
    IF Has(i, "error") THEN << <<"Error", i["error"]>> >>
    ELSE
        << <<"Model", GetOr(i, "model", "Unknown"), GetOr(i, "product_type", "")>>,
           <<"iOS Version", GetOr(i, "ios_version", "Unknown")>> >>
        \o (IF Has(i, "battery_percent")
              THEN << <<"Battery", i["battery_percent"], GetOr(i, "is_charging", FALSE)>> >>
              ELSE << >>)
        \o (IF Has(i, "temperature_c")
              THEN << <<"Temperature", i["temperature_c"],
                        FahrenheitTenths(i["temperature_c"]),
                        TempStatus(i["temperature_c"])>> >>
              ELSE << >>)
        \o (IF Has(i, "diagnostics_error")
              THEN << <<"Note", i["diagnostics_error"]>> >>
              ELSE << >>)

---------------------------------------------------------------------------
VARIABLES
    pc,             \* position of the loop
    was_connected,  \* the watcher's flag
    is_connected,   \* this tick's observation
    lockdown,       \* get_iphone_info: the session
    device_info,    \* get_iphone_info: the dict being filled
    battery_info,   \* get_iphone_info: the result of get_battery()
    info,           \* the watcher's `info`
    message,        \* the watcher's `message`
    diag_open,      \* DiagnosticsService handles currently open
    diag_fail,      \* where the diagnostics sub-query failed in this tick
    interrupted,    \* a KeyboardInterrupt has been delivered
    hist            \* one record per tick: what the tick observed and did

vars == <<pc, was_connected, is_connected, lockdown, device_info, battery_info,
          info, message, diag_open, diag_fail, interrupted, hist>>

locals == <<lockdown, device_info, battery_info, info, message>>

\* Positions inside the `with DiagnosticsService(lockdown) as diag:` block.
InWith == {"q_battery", "q_cap", "q_temp", "q_chg", "q_exit"}

\* Positions inside the `try:` of the loop (lines 106-126).
InTry == {"list", "check", "settle", "q_list", "q_session", "q_ident", "q_open",
          "q_return", "after_query", "popup", "commit", "sleep"} \cup InWith

\* Positions inside the `except Exception` handler (lines 132-133).
InHandler == {"handler", "errsleep"}

Terminal == {"stopped", "propagated"}

NewTick(o) ==
    [obs |-> o, detected |-> 0, disconnected |-> 0, queries |-> 0, popups |-> 0,
     notretrieved |-> 0, errors |-> 0, released |-> 0, acquired |-> 0,
     sleeps |-> << >>, raised_by |-> "none", done |-> FALSE]

Cur == Len(hist)

Count(f) == [hist EXCEPT ![Cur][f] = @ + 1]

Init ==
    /\ pc = "list"
    /\ was_connected = FALSE
    /\ is_connected = FALSE
    /\ lockdown = NoSession
    /\ device_info = EmptyMap
    /\ battery_info = NoBattery
    /\ info = NoneVal
    /\ message = << >>
    /\ diag_open = 0
    /\ diag_fail = "none"
    /\ interrupted = FALSE
    /\ hist = << >>

---------------------------------------------------------------------------
\* Bookkeeping shared by the actions.

\* An exception leaves the `try:` body of the loop for the handler of line 131.
Propagate(origin, h) ==
    /\ hist' = [h EXCEPT ![Len(h)].raised_by = origin]
    /\ pc' = "handler"

\* `return {"error": str(e)}` of line 53.
ErrorResult_KeepIdentity(e) ==
    Dict([error |-> e, model |-> lockdown.display_name])

ErrorResult(e) == Dict([error |-> e])

\* `device_info["diagnostics_error"] = str(e)` of line 48.
RecordDiagnosticsError_Fresh(e) == [diagnostics_error |-> e]

RecordDiagnosticsError(e) == Put(device_info, "diagnostics_error", e)

\* DiagnosticsService.__exit__ when the block is left by an exception or an
\* interrupt: the handle is closed.
UnwindWith_Leak ==
    /\ diag_open' = diag_open
    /\ hist' = hist

UnwindWith ==
    /\ diag_open' = diag_open - 1
    /\ hist' = Count("released")

\* An ordinary exception inside the with block: __exit__, then line 47-48.
DiagnosticsRaised(where, e) ==
    /\ UnwindWith
    /\ device_info' = RecordDiagnosticsError(e)
    /\ diag_fail' = where
    /\ pc' = "q_return"

---------------------------------------------------------------------------
\* monitor_iphone_connection, lines 104-126.

\* devices = list_devices(); is_connected = len(devices) > 0
ListDevices ==
    /\ pc = "list"
    /\ Cur < MaxTicks
    /\ lockdown' = NoSession
    /\ device_info' = EmptyMap
    /\ battery_info' = NoBattery
    /\ info' = NoneVal
    /\ message' = << >>
    /\ diag_fail' = "none"
    /\ \E r \in {"present", "absent", "raised"} :
          IF r = "raised"
            THEN /\ Propagate("list_devices", Append(hist, NewTick(r)))
                 /\ UNCHANGED is_connected
            ELSE /\ hist' = Append(hist, NewTick(r))
                 /\ is_connected' = (r = "present")
                 /\ pc' = "check"
    /\ UNCHANGED <<was_connected, diag_open, interrupted>>

\* A loop whose test is the level, not the edge.
CheckTransition_Level ==
    /\ pc = "check"
    /\ IF is_connected
         THEN /\ hist' = Count("detected")
              /\ pc' = "settle"
         ELSE IF was_connected
                THEN /\ hist' = Count("disconnected")
                     /\ pc' = "commit"
                ELSE /\ pc' = "commit"
                     /\ UNCHANGED hist
    /\ UNCHANGED <<was_connected, is_connected, locals, diag_open, diag_fail, interrupted>>

\* if is_connected and not was_connected: ... elif not is_connected and was_connected: ...
CheckTransition ==
    /\ pc = "check"
    /\ IF is_connected /\ ~was_connected
         THEN /\ hist' = Count("detected")
              /\ pc' = "settle"
         ELSE IF ~is_connected /\ was_connected
                THEN /\ hist' = Count("disconnected")
                     /\ pc' = "commit"
                ELSE /\ pc' = "commit"
                     /\ UNCHANGED hist
    /\ UNCHANGED <<was_connected, is_connected, locals, diag_open, diag_fail, interrupted>>

\* time.sleep(1)
Settle ==
    /\ pc = "settle"
    /\ hist' = [hist EXCEPT ![Cur].sleeps = Append(@, SettleDelay)]
    /\ pc' = "q_list"
    /\ UNCHANGED <<was_connected, is_connected, locals, diag_open, diag_fail, interrupted>>

---------------------------------------------------------------------------
\* get_iphone_info, lines 18-53, called from line 114.

\* devices = list_devices(); if not devices: return None
\* The call is outside the `try:` of line 23: what it raises leaves the function.
Q_List ==
    /\ pc = "q_list"
    /\ \E r \in {"present", "absent", "raised"} :
          CASE r = "raised"  -> /\ Propagate("get_iphone_info", Count("queries"))
                                /\ UNCHANGED info
            [] r = "absent"  -> /\ hist' = Count("queries")
                                /\ info' = NoneVal
                                /\ pc' = "after_query"
            [] r = "present" -> /\ hist' = Count("queries")
                                /\ pc' = "q_session"
                                /\ UNCHANGED info
    /\ UNCHANGED <<was_connected, is_connected, lockdown, device_info, battery_info,
                   message, diag_open, diag_fail, interrupted>>

\* lockdown = create_using_usbmux()
Q_Session ==
    /\ pc = "q_session"
    /\ \/ /\ \E s \in Sessions : lockdown' = s
          /\ pc' = "q_ident"
          /\ UNCHANGED info
       \/ /\ info' = ErrorResult("usbmux: no session")
          /\ pc' = "after_query"
          /\ UNCHANGED lockdown
    /\ UNCHANGED <<was_connected, is_connected, device_info, battery_info, message,
                   diag_open, diag_fail, interrupted, hist>>

\* device_info = {"model": ..., "product_type": ..., "ios_version": ...}
\* The dict is bound only when the three attributes have been read.
Q_Ident ==
    /\ pc = "q_ident"
    /\ \/ /\ device_info' = [model |-> lockdown.display_name,
                             product_type |-> lockdown.product_type,
                             ios_version |-> lockdown.product_version]
          /\ pc' = "q_open"
          /\ UNCHANGED info
       \/ /\ info' = ErrorResult("lockdown: attribute unavailable")
          /\ pc' = "after_query"
          /\ UNCHANGED device_info
    /\ UNCHANGED <<was_connected, is_connected, lockdown, battery_info, message,
                   diag_open, diag_fail, interrupted, hist>>

\* with DiagnosticsService(lockdown) as diag:
Q_Open ==
    /\ pc = "q_open"
    /\ \/ /\ diag_open' = diag_open + 1
          /\ hist' = Count("acquired")
          /\ pc' = "q_battery"
          /\ UNCHANGED <<device_info, diag_fail>>
       \/ /\ device_info' = RecordDiagnosticsError("diagnostics: cannot start service")
          /\ diag_fail' = "open"
          /\ pc' = "q_return"
          /\ UNCHANGED <<diag_open, hist>>
    /\ UNCHANGED <<was_connected, is_connected, lockdown, battery_info, info, message,
                   interrupted>>

\* battery_info = diag.get_battery()
Q_Battery ==
    /\ pc = "q_battery"
    /\ \/ /\ \E b \in BatteryInfos : battery_info' = b
          /\ pc' = "q_cap"
          /\ UNCHANGED <<device_info, diag_open, diag_fail, hist>>
       \/ /\ DiagnosticsRaised("battery", "diagnostics: no battery data")
          /\ UNCHANGED battery_info
    /\ UNCHANGED <<was_connected, is_connected, lockdown, info, message, interrupted>>

\* if "CurrentCapacity" in battery_info: ... elif "BatteryCurrentCapacity" in battery_info: ...
\* `in` raises TypeError when battery_info is None.
Q_Cap ==
    /\ pc = "q_cap"
    /\ IF battery_info.kind = "none"
         THEN DiagnosticsRaised("cap", "TypeError: not iterable")
         ELSE /\ device_info' =
                   IF Has(battery_info.d, "CurrentCapacity")
                     THEN Put(device_info, "battery_percent", battery_info.d["CurrentCapacity"])
                     ELSE IF Has(battery_info.d, "BatteryCurrentCapacity")
                            THEN Put(device_info, "battery_percent",
                                     battery_info.d["BatteryCurrentCapacity"])
                            ELSE device_info
              /\ pc' = "q_temp"
              /\ UNCHANGED <<diag_open, diag_fail, hist>>
    /\ UNCHANGED <<was_connected, is_connected, lockdown, battery_info, info, message,
                   interrupted>>

\* if "Temperature" in battery_info: device_info["temperature_c"] = round(...)
Q_Temp ==
    /\ pc = "q_temp"
    /\ IF Has(battery_info.d, "Temperature")
         THEN IF battery_info.d["Temperature"] = NonNumeric
                THEN DiagnosticsRaised("temp", "TypeError: unsupported operand")
                ELSE /\ device_info' = Put(device_info, "temperature_c",
                                           TenthsOf(battery_info.d["Temperature"]))
                     /\ pc' = "q_chg"
                     /\ UNCHANGED <<diag_open, diag_fail, hist>>
         ELSE /\ pc' = "q_chg"
              /\ UNCHANGED <<device_info, diag_open, diag_fail, hist>>
    /\ UNCHANGED <<was_connected, is_connected, lockdown, battery_info, info, message,
                   interrupted>>

\* device_info["is_charging"] = battery_info.get("IsCharging", False)
\* A list has no `get`: AttributeError.
Q_Chg ==
    /\ pc = "q_chg"
    /\ IF battery_info.kind = "list"
         THEN DiagnosticsRaised("chg", "AttributeError: get")
         ELSE /\ device_info' = Put(device_info, "is_charging",
                                    GetOr(battery_info.d, "IsCharging", FALSE))
              /\ pc' = "q_exit"
              /\ UNCHANGED <<diag_open, diag_fail, hist>>
    /\ UNCHANGED <<was_connected, is_connected, lockdown, battery_info, info, message,
                   interrupted>>

\* The end of the with block: DiagnosticsService.__exit__ closes the handle,
\* and what it raises is caught by line 47 like the rest.
Q_Exit ==
    /\ pc = "q_exit"
    /\ diag_open' = diag_open - 1
    /\ hist' = Count("released")
    /\ \/ UNCHANGED <<device_info, diag_fail>>
       \/ /\ device_info' = RecordDiagnosticsError("diagnostics: close failed")
          /\ diag_fail' = "close"
    /\ pc' = "q_return"
    /\ UNCHANGED <<was_connected, is_connected, lockdown, battery_info, info, message,
                   interrupted>>

\* return device_info
Q_Return ==
    /\ pc = "q_return"
    /\ info' = Dict(device_info)
    /\ pc' = "after_query"
    /\ UNCHANGED <<was_connected, is_connected, lockdown, device_info, battery_info,
                   message, diag_open, diag_fail, interrupted, hist>>

---------------------------------------------------------------------------
\* monitor_iphone_connection, lines 115-133.

\* An `else:` branch that goes back to the loop head (a `continue`).
AfterQuery_Continue ==
    /\ pc = "after_query"
    /\ IF Truthy(info)
         THEN /\ message' = format_device_info(info.d)
              /\ pc' = "popup"
              /\ UNCHANGED hist
         ELSE /\ hist' = Count("notretrieved")
              /\ pc' = "list"
              /\ UNCHANGED message
    /\ UNCHANGED <<was_connected, is_connected, lockdown, device_info, battery_info,
                   info, diag_open, diag_fail, interrupted>>

\* if info: message = format_device_info(info); print(...)
\* else: print("Could not retrieve device information.")
AfterQuery ==
    /\ pc = "after_query"
    /\ IF Truthy(info)
         THEN /\ message' = format_device_info(info.d)
              /\ pc' = "popup"
              /\ UNCHANGED hist
         ELSE /\ hist' = Count("notretrieved")
              /\ pc' = "commit"
              /\ UNCHANGED message
    /\ UNCHANGED <<was_connected, is_connected, lockdown, device_info, battery_info,
                   info, diag_open, diag_fail, interrupted>>

\* show_popup("iPhone Connected", message): subprocess.run raises when the
\* osascript program cannot be started.
ShowPopup ==
    /\ pc = "popup"
    /\ \/ /\ hist' = Count("popups")
          /\ pc' = "commit"
       \/ Propagate("show_popup", Count("popups"))
    /\ UNCHANGED <<was_connected, is_connected, locals, diag_open, diag_fail, interrupted>>

\* was_connected = is_connected
Commit ==
    /\ pc = "commit"
    /\ was_connected' = is_connected
    /\ hist' = [hist EXCEPT ![Cur].done = TRUE]
    /\ pc' = "sleep"
    /\ UNCHANGED <<is_connected, locals, diag_open, diag_fail, interrupted>>

\* time.sleep(2)
Sleep ==
    /\ pc = "sleep"
    /\ hist' = [hist EXCEPT ![Cur].sleeps = Append(@, TickInterval)]
    /\ pc' = "list"
    /\ UNCHANGED <<was_connected, is_connected, locals, diag_open, diag_fail, interrupted>>

\* A loop without the `except Exception` clause: the exception ends it.
HandleException_Missing ==
    /\ pc = "handler"
    /\ pc' = "propagated"
    /\ UNCHANGED <<was_connected, is_connected, locals, diag_open, diag_fail,
                   interrupted, hist>>

\* except Exception as e: print(f"Error: {e}")
HandleException ==
    /\ pc = "handler"
    /\ hist' = Count("errors")
    /\ pc' = "errsleep"
    /\ UNCHANGED <<was_connected, is_connected, locals, diag_open, diag_fail, interrupted>>

\* time.sleep(2) of the handler
ErrorSleep ==
    /\ pc = "errsleep"
    /\ hist' = [hist EXCEPT ![Cur].sleeps = Append(@, ErrorInterval)]
    /\ pc' = "list"
    /\ UNCHANGED <<was_connected, is_connected, locals, diag_open, diag_fail, interrupted>>

\* A KeyboardInterrupt is delivered.  Inside the try body it is caught by
\* line 128 (after __exit__ of an open with block): the stop message is
\* printed and the loop ends.  Inside the `except Exception` handler no
\* clause of the same try statement applies and it leaves the function.
Interrupt ==
    /\ pc \notin Terminal
    /\ interrupted' = TRUE
    /\ IF pc \in InWith THEN UnwindWith ELSE UNCHANGED <<diag_open, hist>>
    /\ pc' = IF pc \in InTry THEN "stopped" ELSE "propagated"
    /\ UNCHANGED <<was_connected, is_connected, locals, diag_fail>>

Next ==
    \/ ListDevices
    \/ CheckTransition
    \/ Settle
    \/ Q_List
    \/ Q_Session
    \/ Q_Ident
    \/ Q_Open
    \/ Q_Battery
    \/ Q_Cap
    \/ Q_Temp
    \/ Q_Chg
    \/ Q_Exit
    \/ Q_Return
    \/ AfterQuery
    \/ ShowPopup
    \/ Commit
    \/ Sleep
    \/ HandleException
    \/ ErrorSleep
    \/ Interrupt

Spec == Init /\ [][Next]_vars

---------------------------------------------------------------------------
\* Vocabulary of the properties.

Ticks == 1..Cur

\* The observation of the tick before t was "device present"; the first
\* tick's predecessor counts as "absent".
PrevPresent(t) == t > 1 /\ hist[t-1].obs = "present"

Appeared(t) == hist[t].obs = "present" /\ ~PrevPresent(t)

Left(t) == hist[t].obs = "absent" /\ PrevPresent(t)

\* No call has raised and no interrupt was delivered.
NoRaise == ~interrupted /\ \A t \in Ticks : hist[t].raised_by = "none"

B2N(b) == IF b THEN 1 ELSE 0

ObsSeq == [t \in Ticks |-> hist[t].obs]

\* The number of sleeps of `d` time units in tick t.
SleepsOf(t, d) == Cardinality({i \in DOMAIN hist[t].sleeps : hist[t].sleeps[i] = d})

\* The lines of the message that report the temperature.
TemperatureLines == {i \in DOMAIN message : message[i][1] = "Temperature"}

RawTemperatureIs(r) ==
    /\ Has(battery_info.d, "Temperature")
    /\ battery_info.d["Temperature"] = r
    /\ Has(device_info, "temperature_c")

---------------------------------------------------------------------------
\* C1: in a run in which nothing raises, a tick queries the device (and
\* attempts one notification when the result is not absent) exactly when its
\* observation is "present" and the previous one was not; it logs the
\* disconnect exactly when its observation is "absent" and the previous one
\* was "present"; every other tick does nothing.  The observations
\* [absent, present, present, absent] give one query and at most one
\* notification, on tick 2, and one disconnect log, on tick 4.
C1_EdgeTriggered ==
    NoRaise =>
      /\ \A t \in Ticks :
            /\ hist[t].queries <= B2N(Appeared(t))
            /\ hist[t].detected <= B2N(Appeared(t))
            /\ hist[t].popups <= B2N(Appeared(t) /\ hist[t].notretrieved = 0)
            /\ hist[t].disconnected <= B2N(Left(t))
            /\ hist[t].done =>
                 /\ hist[t].queries = B2N(Appeared(t))
                 /\ hist[t].detected = B2N(Appeared(t))
                 /\ hist[t].popups = B2N(Appeared(t) /\ hist[t].notretrieved = 0)
                 /\ hist[t].disconnected = B2N(Left(t))
                 /\ t = Cur => (hist[t].popups = 1 <=> (Appeared(t) /\ ~info.isNone))
      /\ (Cur >= 4 /\ hist[4].done
            /\ \A t \in 1..4 : hist[t].obs = <<"absent", "present", "present", "absent">>[t])
           => /\ \A t \in 1..4 : hist[t].queries = B2N(t = 2)
              /\ \A t \in 1..4 : hist[t].popups = B2N(t = 2 /\ hist[2].notretrieved = 0)
              /\ \A t \in 1..4 : hist[t].disconnected = B2N(t = 4)

C1_Witness ==
    /\ NoRaise
    /\ Cur = 4
    /\ hist[4].done
    /\ ObsSeq = <<"absent", "present", "present", "absent">>
    /\ hist[2].popups = 1
    /\ hist[4].disconnected = 1

\* C2: also after an exception that the watcher caught, a tick whose
\* observation equals the observation of the tick before it performs no
\* query, no notification attempt and prints no appeared/disconnected message.
C2_NoActionOnRepeatedObservation ==
    \A t \in Ticks :
        (t > 1 /\ hist[t].obs \in {"present", "absent"} /\ hist[t].obs = hist[t-1].obs)
          => /\ hist[t].queries = 0
             /\ hist[t].popups = 0
             /\ hist[t].detected = 0
             /\ hist[t].disconnected = 0

\* C3: no exception leaves get_iphone_info, whatever the collaborator does.
C3_QueryNeverRaises ==
    \A t \in Ticks : hist[t].raised_by # "get_iphone_info"

\* C4: an interrupt delivered at any point of the loop makes the watcher
\* print the stop message and return normally; it never leaves
\* monitor_iphone_connection.
C4_InterruptStopsCleanly ==
    interrupted => pc = "stopped"

\* C5: a tick that observes a device with was_connected false and whose
\* query returns None logs "could not retrieve", does not notify and sets
\* was_connected; the following ticks that still observe the device neither
\* query nor notify.
C5_AbsentRace ==
    \A t \in Ticks :
        hist[t].notretrieved >= 1 =>
          /\ hist[t].notretrieved = 1
          /\ hist[t].obs = "present"
          /\ hist[t].queries = 1
          /\ hist[t].popups = 0
          /\ (t = Cur /\ hist[t].done) => was_connected
          /\ \A u \in (t+1)..Cur :
                (\A v \in (t+1)..u : hist[v].obs = "present")
                  => /\ hist[u].queries = 0
                     /\ hist[u].popups = 0
                     /\ hist[u].detected = 0

C5_Witness ==
    \E t \in Ticks :
        /\ hist[t].notretrieved = 1
        /\ t + 1 = Cur
        /\ hist[Cur].obs = "present"
        /\ hist[Cur].done

\* C6: an exception raised during a tick is logged once, followed by one
\* 2-unit sleep and by the next listing; only an interrupt ends the loop;
\* between two listings there is exactly one 2-unit sleep, whichever branch
\* the tick took.
C6_ErrorsAreSurvived ==
    /\ pc \in Terminal => interrupted
    /\ \A t \in Ticks :
          /\ SleepsOf(t, 2) <= 1
          /\ (t < Cur \/ pc = "list") => SleepsOf(t, 2) = 1
          /\ (hist[t].raised_by = "none") => hist[t].errors = 0
          /\ (hist[t].raised_by # "none" /\ (t < Cur \/ pc \in {"errsleep", "list"}))
                => hist[t].errors = 1
          /\ (hist[t].raised_by # "none" /\ t = Cur /\ ~interrupted)
                => pc \in {"handler", "errsleep", "list"}

C6_Witness ==
    /\ Cur >= 2
    /\ hist[Cur - 1].raised_by = "show_popup"
    /\ hist[Cur - 1].errors = 1
    /\ hist[Cur - 1].sleeps = <<1, 2>>
    /\ pc = "check"

\* C7: a mapping returned by get_iphone_info that contains `error` contains
\* nothing else, also when the failure is the reading of an identity
\* attribute of an established session.
C7_ErrorExclusive ==
    (~info.isNone /\ Has(info.d, "error")) => DOMAIN info.d = {"error"}

C7_Witness ==
    /\ pc = "after_query"
    /\ Has(info.d, "error")
    /\ lockdown \in Sessions

\* C8 as stated: the raw temperature 27415 gives temperature_c = 0.0, which
\* is classified Normal.
C8_Raw27415IsZero ==
    RawTemperatureIs(27415) =>
        /\ device_info["temperature_c"] = 0
        /\ \A i \in TemperatureLines : message[i][2] = 0 /\ message[i][4] = "Normal"

\* C8 amended: the raw temperature 27315 gives temperature_c = 0.0, which is
\* classified Normal (not Too Cold!); the raw temperature 27415 gives 1.0,
\* Normal as well.
C8_Raw27315IsZero ==
    /\ RawTemperatureIs(27315) =>
          /\ device_info["temperature_c"] = 0
          /\ \A i \in TemperatureLines : message[i][2] = 0 /\ message[i][4] = "Normal"
          /\ pc = "popup" => TemperatureLines # {}
    /\ RawTemperatureIs(27415) =>
          /\ device_info["temperature_c"] = 10
          /\ \A i \in TemperatureLines : message[i][2] = 10 /\ message[i][4] = "Normal"

C8_Witness ==
    /\ pc = "popup"
    /\ RawTemperatureIs(27315)
    /\ \E i \in TemperatureLines : message[i][2] = 0 /\ message[i][4] = "Normal"

\* C9: when a step of the diagnostics sub-query raises, the returned mapping
\* holds diagnostics_error, the three identity fields as read from the
\* session and every diagnostic field stored before the failing step, and
\* no error.
C9_PartialDiagnostics ==
    (pc = "after_query" /\ diag_fail # "none") =>
        /\ ~info.isNone
        /\ Has(info.d, "diagnostics_error")
        /\ ~Has(info.d, "error")
        /\ Has(info.d, "model") /\ info.d["model"] = lockdown.display_name
        /\ Has(info.d, "product_type") /\ info.d["product_type"] = lockdown.product_type
        /\ Has(info.d, "ios_version") /\ info.d["ios_version"] = lockdown.product_version
        /\ diag_fail \in {"open", "battery", "cap"} =>
              DOMAIN info.d = {"model", "product_type", "ios_version", "diagnostics_error"}
        /\ diag_fail \in {"temp", "chg", "close"} =>
              /\ Has(battery_info.d, "CurrentCapacity") =>
                    /\ Has(info.d, "battery_percent")
                    /\ info.d["battery_percent"] = battery_info.d["CurrentCapacity"]
              /\ (~Has(battery_info.d, "CurrentCapacity")
                    /\ Has(battery_info.d, "BatteryCurrentCapacity")) =>
                    /\ Has(info.d, "battery_percent")
                    /\ info.d["battery_percent"] = battery_info.d["BatteryCurrentCapacity"]
        /\ (diag_fail \in {"chg", "close"} /\ Has(battery_info.d, "Temperature")) =>
              Has(info.d, "temperature_c")
        /\ diag_fail = "close" =>
              /\ Has(info.d, "is_charging")
              /\ info.d["is_charging"] = (Has(battery_info.d, "IsCharging")
                                            /\ battery_info.d["IsCharging"])

C9_Witness ==
    /\ pc = "after_query"
    /\ diag_fail = "temp"
    /\ Has(info.d, "battery_percent")
    /\ Has(info.d, "diagnostics_error")

\* C10: a DiagnosticsService handle that was acquired is released exactly
\* once before get_iphone_info is left, by return, exception or interrupt;
\* at most one handle is open, and none outside the with block (so none
\* while the watcher sleeps or after it stopped).
C10_ScopedHandle ==
    /\ diag_open \in {0, 1}
    /\ diag_open = 1 <=> pc \in InWith
    /\ \A t \in Ticks :
          /\ hist[t].acquired <= 1
          /\ hist[t].released =
                IF t = Cur /\ pc \in InWith THEN 0 ELSE hist[t].acquired

C10_Witness ==
    /\ interrupted
    /\ pc = "stopped"
    /\ battery_info \in BatteryInfos
    /\ diag_fail = "none"
    /\ info.isNone
    /\ hist[Cur].acquired = 1
    /\ hist[Cur].released = 1

====
